---- MODULE Spec2Model ----
(***************************************************************************)
(* Model of the inventory ledger of src/diagrama.py: the classes Produto,  *)
(* Venda and Estoque.  Prices are integers (currency units); None is the   *)
(* empty sequence and a present value v is the one-element sequence <<v>>. *)
(* A dict {id: quantidade} is the sequence of its items in insertion order *)
(* (pairs <<id, quantidade>> with distinct ids).                           *)
(***************************************************************************)
EXTENDS Integers, Sequences, FiniteSets, TLC

VARIABLES produtos, vendas, ultimo_id_produto, ultimo_id_venda, relogio,
          chamada, ret, saida

vars == <<produtos, vendas, ultimo_id_produto, ultimo_id_venda, relogio, chamada, ret, saida>>

(* the state of the Estoque object *)
livro == <<produtos, vendas, ultimo_id_produto, ultimo_id_venda>>

(* ---------------------------- bounds ----------------------------------- *)
MaxProdutos == 2
MaxVendas == 2
MaxItens == 2
MaxTempo == 1

(* ---------------------------- input sets ------------------------------- *)
None == <<>>
Some(v) == <<v>>

Ids == 1..(MaxProdutos + 1)
QtdsProduto == {-1, 2}
Precos == {2, 3}
Limites == {0, 2}
QtdsVenda == {1, 2}

(* dicts {id: quantidade} of at most MaxItens items, in insertion order *)
Dicts(QtdsS) ==
  UNION { { d \in [1..n -> Ids \X QtdsS] :
              \A i, j \in 1..n : i # j => d[i][1] # d[j][1] } : n \in 0..MaxItens }

(* ---------------------------- results and output ----------------------- *)
(* the call being answered: the method and its arguments *)
Chamada(op, id_produto, produtos_vendidos, campos) ==
  [op |-> op, id_produto |-> id_produto, produtos_vendidos |-> produtos_vendidos,
   campos |-> campos]

(* what the call returned: a Produto, a Venda or a bool (None is << >>); *)
(* a report call returns a list of Produto or a report text instead     *)
Ret(produto, venda, ok) ==
  [produto |-> produto, venda |-> venda, ok |-> ok, lista |-> << >>, relatorio |-> None]

RetLista(lista) ==
  [produto |-> None, venda |-> None, ok |-> TRUE, lista |-> lista, relatorio |-> None]

RetRelatorio(relatorio) ==
  [produto |-> None, venda |-> None, ok |-> TRUE, lista |-> << >>,
   relatorio |-> Some(relatorio)]

Msg(tipo, id, nome, quantidade) ==
  [tipo |-> tipo, id |-> id, nome |-> nome, quantidade |-> quantidade]

(* ---------------------------- Produto ---------------------------------- *)
Produto(id, nome, tamanho, cor, quantidade, preco, limite_minimo) ==
  [id |-> id, nome |-> nome, tamanho |-> tamanho, cor |-> cor,
   quantidade |-> quantidade, preco |-> preco, limite_minimo |-> limite_minimo]

atualizar_quantidade_atribui(p, quantidade) ==
  [p EXCEPT !.quantidade = quantidade]

atualizar_quantidade(p, quantidade) ==
  [p EXCEPT !.quantidade = @ + quantidade]

verificar_estoque_baixo_inclusivo(p) == p.quantidade <= p.limite_minimo

verificar_estoque_baixo(p) == p.quantidade < p.limite_minimo

(* a caller asks a stored product whether its stock is low *)
consultar_estoque_baixo(id_produto) ==
  /\ id_produto \in DOMAIN produtos
  /\ chamada' = Chamada("verificar_estoque_baixo", Some(id_produto), << >>, << >>)
  /\ ret' = Ret(Some(produtos[id_produto]), None,
                verificar_estoque_baixo(produtos[id_produto]))
  /\ saida' = << >>
  /\ UNCHANGED <<produtos, vendas, ultimo_id_produto, ultimo_id_venda, relogio>>

(* ---------------------------- Venda ------------------------------------ *)
RECURSIVE SomaItens(_, _, _)
SomaItens(itens, prods, i) ==
  IF i > Len(itens) THEN 0
  ELSE prods[itens[i][1]].preco * itens[i][2] + SomaItens(itens, prods, i + 1)

calcular_valor_total_sem_preco(itens, prods) ==
  SomaItens(itens, [k \in DOMAIN prods |-> [preco |-> 1]], 1)

calcular_valor_total(itens, prods) == SomaItens(itens, prods, 1)

Venda(id, itens, data, prods) ==
  [id |-> id, produtos |-> itens, data |-> data,
   valor_total |-> calcular_valor_total(itens, prods)]

(* ---------------------------- Estoque ---------------------------------- *)
Init ==
  /\ produtos = << >>
  /\ vendas = << >>
  /\ ultimo_id_produto = 0
  /\ ultimo_id_venda = 0
  /\ relogio = 0
  /\ chamada = Chamada("__init__", None, << >>, << >>)
  /\ ret = Ret(None, None, TRUE)
  /\ saida = << >>

Put(f, k, v) == [x \in (DOMAIN f) \cup {k} |-> IF x = k THEN v ELSE f[x]]

Del(f, k) == [x \in (DOMAIN f) \ {k} |-> f[x]]

(* adicionar_produto that numbers the product by the size of the inventory *)
adicionar_produto_por_tamanho(nome, tamanho, cor, quantidade, preco, limite_minimo) ==
  LET novo == Cardinality(DOMAIN produtos) + 1
      produto == Produto(novo, nome, tamanho, cor, quantidade, preco, limite_minimo)
  IN /\ ultimo_id_produto < MaxProdutos
     /\ ultimo_id_produto' = ultimo_id_produto + 1
     /\ produtos' = Put(produtos, novo, produto)
     /\ chamada' = Chamada("adicionar_produto", None, << >>,
                           <<Some(nome), Some(tamanho), Some(cor), Some(quantidade),
                             Some(preco), Some(limite_minimo)>>)
     /\ ret' = Ret(Some(produto), None, TRUE)
     /\ saida' = << >>
     /\ UNCHANGED <<vendas, ultimo_id_venda, relogio>>

(* adicionar_produto that gives the product the smallest id not in use *)
adicionar_produto_menor_livre(nome, tamanho, cor, quantidade, preco, limite_minimo) ==
  LET novo == CHOOSE k \in 1..(ultimo_id_produto + 1) :
                 /\ k \notin DOMAIN produtos
                 /\ \A j \in 1..(k - 1) : j \in DOMAIN produtos
      produto == Produto(novo, nome, tamanho, cor, quantidade, preco, limite_minimo)
  IN /\ ultimo_id_produto < MaxProdutos
     /\ ultimo_id_produto' = ultimo_id_produto + 1
     /\ produtos' = Put(produtos, novo, produto)
     /\ chamada' = Chamada("adicionar_produto", None, << >>,
                           <<Some(nome), Some(tamanho), Some(cor), Some(quantidade),
                             Some(preco), Some(limite_minimo)>>)
     /\ ret' = Ret(Some(produto), None, TRUE)
     /\ saida' = << >>
     /\ UNCHANGED <<vendas, ultimo_id_venda, relogio>>

adicionar_produto(nome, tamanho, cor, quantidade, preco, limite_minimo) ==
  LET novo == ultimo_id_produto + 1
      produto == Produto(novo, nome, tamanho, cor, quantidade, preco, limite_minimo)
  IN /\ ultimo_id_produto < MaxProdutos
     /\ ultimo_id_produto' = novo
     /\ produtos' = Put(produtos, novo, produto)
     /\ chamada' = Chamada("adicionar_produto", None, << >>,
                           <<Some(nome), Some(tamanho), Some(cor), Some(quantidade),
                             Some(preco), Some(limite_minimo)>>)
     /\ ret' = Ret(Some(produto), None, TRUE)
     /\ saida' = << >>
     /\ UNCHANGED <<vendas, ultimo_id_venda, relogio>>

(* the sales of vs that do not name product id *)
SemProduto(vs, id) ==
  SelectSeq(vs, LAMBDA v : \A i \in 1..Len(v.produtos) : v.produtos[i][1] # id)

(* remover_produto that also deletes the sales that name the product *)
remover_produto_em_cascata(id_produto) ==
  /\ chamada' = Chamada("remover_produto", Some(id_produto), << >>, << >>)
  /\ IF id_produto \in DOMAIN produtos
       THEN /\ produtos' = Del(produtos, id_produto)
            /\ vendas' = SemProduto(vendas, id_produto)
            /\ ret' = Ret(None, None, TRUE)
       ELSE /\ produtos' = produtos
            /\ vendas' = vendas
            /\ ret' = Ret(None, None, FALSE)
  /\ saida' = << >>
  /\ UNCHANGED <<ultimo_id_produto, ultimo_id_venda, relogio>>

(* remover_produto that refuses a product some sale names *)
remover_produto_com_referencia(id_produto) ==
  /\ chamada' = Chamada("remover_produto", Some(id_produto), << >>, << >>)
  /\ IF id_produto \in DOMAIN produtos /\ SemProduto(vendas, id_produto) = vendas
       THEN /\ produtos' = Del(produtos, id_produto)
            /\ ret' = Ret(None, None, TRUE)
       ELSE /\ produtos' = produtos
            /\ ret' = Ret(None, None, FALSE)
  /\ saida' = << >>
  /\ UNCHANGED <<vendas, ultimo_id_produto, ultimo_id_venda, relogio>>

remover_produto(id_produto) ==
  /\ chamada' = Chamada("remover_produto", Some(id_produto), << >>, << >>)
  /\ IF id_produto \in DOMAIN produtos
       THEN /\ produtos' = Del(produtos, id_produto)
            /\ ret' = Ret(None, None, TRUE)
       ELSE /\ produtos' = produtos
            /\ ret' = Ret(None, None, FALSE)
  /\ saida' = << >>
  /\ UNCHANGED <<vendas, ultimo_id_produto, ultimo_id_venda, relogio>>

Truthy(s) == s # None /\ s[1] # ""

(* atualizar_produto that registers the product when the id is not a key *)
atualizar_produto_ou_cria(id_produto, nome, tamanho, cor, quantidade, preco, limite_minimo) ==
  LET ou(campo, padrao) == IF campo # None THEN campo[1] ELSE padrao
      p0 == IF id_produto \in DOMAIN produtos
              THEN produtos[id_produto]
              ELSE Produto(id_produto, "", "", "", 0, 0, 0)
      p6 == Produto(id_produto,
                    IF Truthy(nome) THEN nome[1] ELSE p0.nome,
                    IF Truthy(tamanho) THEN tamanho[1] ELSE p0.tamanho,
                    IF Truthy(cor) THEN cor[1] ELSE p0.cor,
                    ou(quantidade, p0.quantidade), ou(preco, p0.preco),
                    ou(limite_minimo, p0.limite_minimo))
  IN /\ chamada' = Chamada("atualizar_produto", Some(id_produto), << >>,
                           <<nome, tamanho, cor, quantidade, preco, limite_minimo>>)
     /\ produtos' = Put(produtos, id_produto, p6)
     /\ ret' = Ret(Some(p6), None, TRUE)
     /\ saida' = << >>
     /\ UNCHANGED <<vendas, ultimo_id_produto, ultimo_id_venda, relogio>>

(* atualizar_produto that tests the numbers as it tests the strings, so *)
(* that a zero is taken for an absent value                             *)
atualizar_produto_sem_zero(id_produto, nome, tamanho, cor, quantidade, preco, limite_minimo) ==
  LET dado(campo) == campo # None /\ campo[1] # 0
  IN /\ chamada' = Chamada("atualizar_produto", Some(id_produto), << >>,
                           <<nome, tamanho, cor, quantidade, preco, limite_minimo>>)
     /\ IF id_produto \notin DOMAIN produtos
          THEN /\ produtos' = produtos
               /\ ret' = Ret(None, None, FALSE)
          ELSE LET p0 == produtos[id_produto]
                   p6 == Produto(p0.id,
                           IF Truthy(nome) THEN nome[1] ELSE p0.nome,
                           IF Truthy(tamanho) THEN tamanho[1] ELSE p0.tamanho,
                           IF Truthy(cor) THEN cor[1] ELSE p0.cor,
                           IF dado(quantidade) THEN quantidade[1] ELSE p0.quantidade,
                           IF dado(preco) THEN preco[1] ELSE p0.preco,
                           IF dado(limite_minimo) THEN limite_minimo[1]
                                                  ELSE p0.limite_minimo)
               IN /\ produtos' = [produtos EXCEPT ![id_produto] = p6]
                  /\ ret' = Ret(Some(p6), None, TRUE)
     /\ saida' = << >>
     /\ UNCHANGED <<vendas, ultimo_id_produto, ultimo_id_venda, relogio>>

atualizar_produto(id_produto, nome, tamanho, cor, quantidade, preco, limite_minimo) ==
  /\ chamada' = Chamada("atualizar_produto", Some(id_produto), << >>,
                        <<nome, tamanho, cor, quantidade, preco, limite_minimo>>)
  /\ IF id_produto \notin DOMAIN produtos
       THEN /\ produtos' = produtos
            /\ ret' = Ret(None, None, FALSE)
       ELSE LET p0 == produtos[id_produto]
                p1 == IF Truthy(nome) THEN [p0 EXCEPT !.nome = nome[1]] ELSE p0
                p2 == IF Truthy(tamanho) THEN [p1 EXCEPT !.tamanho = tamanho[1]] ELSE p1
                p3 == IF Truthy(cor) THEN [p2 EXCEPT !.cor = cor[1]] ELSE p2
                p4 == IF quantidade # None THEN [p3 EXCEPT !.quantidade = quantidade[1]] ELSE p3
                p5 == IF preco # None THEN [p4 EXCEPT !.preco = preco[1]] ELSE p4
                p6 == IF limite_minimo # None
                        THEN [p5 EXCEPT !.limite_minimo = limite_minimo[1]] ELSE p5
            IN /\ produtos' = [produtos EXCEPT ![id_produto] = p6]
               /\ ret' = Ret(Some(p6), None, TRUE)
  /\ saida' = << >>
  /\ UNCHANGED <<vendas, ultimo_id_produto, ultimo_id_venda, relogio>>

(* Validar that prints, for a lack of stock, the quantity asked for *)
RECURSIVE Validar_pedido(_, _, _)
Validar_pedido(itens, prods, i) ==
  IF i > Len(itens) THEN None
  ELSE LET id == itens[i][1]
           quantidade == itens[i][2]
       IN IF id \notin DOMAIN prods
            THEN Some(Msg("ErroNaoExiste", Some(id), None, None))
          ELSE IF prods[id].quantidade < quantidade
            THEN Some(Msg("ErroInsuficiente", None, Some(prods[id].nome),
                          Some(quantidade)))
          ELSE Validar_pedido(itens, prods, i + 1)

(* Validar that checks that the products exist and not their stock *)
RECURSIVE Validar_so_existencia(_, _, _)
Validar_so_existencia(itens, prods, i) ==
  IF i > Len(itens) THEN None
  ELSE IF itens[i][1] \notin DOMAIN prods
    THEN Some(Msg("ErroNaoExiste", Some(itens[i][1]), None, None))
  ELSE Validar_so_existencia(itens, prods, i + 1)

(* first loop of registrar_venda: None when every item passes, otherwise *)
(* the message printed for the first offending item                      *)
RECURSIVE Validar(_, _, _)
Validar(itens, prods, i) ==
  IF i > Len(itens) THEN None
  ELSE LET id == itens[i][1]
           quantidade == itens[i][2]
       IN IF id \notin DOMAIN prods
            THEN Some(Msg("ErroNaoExiste", Some(id), None, None))
          ELSE IF prods[id].quantidade < quantidade
            THEN Some(Msg("ErroInsuficiente", None, Some(prods[id].nome),
                          Some(prods[id].quantidade)))
          ELSE Validar(itens, prods, i + 1)

(* Baixar that alerts only when the decrement takes the product from not *)
(* low to low                                                            *)
RECURSIVE Baixar_ao_cruzar(_, _, _, _)
Baixar_ao_cruzar(itens, prods, alertas, i) ==
  IF i > Len(itens) THEN [prods |-> prods, alertas |-> alertas]
  ELSE LET id == itens[i][1]
           p == atualizar_quantidade(prods[id], -itens[i][2])
           prods2 == [prods EXCEPT ![id] = p]
           alertas2 == IF verificar_estoque_baixo(p) /\ ~verificar_estoque_baixo(prods[id])
                         THEN Append(alertas, Msg("Alerta", None, Some(p.nome),
                                                  Some(p.quantidade)))
                         ELSE alertas
       IN Baixar_ao_cruzar(itens, prods2, alertas2, i + 1)

(* Baixar that takes one unit for each line item, whatever was asked *)
RECURSIVE Baixar_uma_unidade(_, _, _, _)
Baixar_uma_unidade(itens, prods, alertas, i) ==
  IF i > Len(itens) THEN [prods |-> prods, alertas |-> alertas]
  ELSE LET id == itens[i][1]
           p == atualizar_quantidade(prods[id], -1)
           prods2 == [prods EXCEPT ![id] = p]
           alertas2 == IF verificar_estoque_baixo(p)
                         THEN Append(alertas, Msg("Alerta", None, Some(p.nome),
                                                  Some(p.quantidade)))
                         ELSE alertas
       IN Baixar_uma_unidade(itens, prods2, alertas2, i + 1)

(* second loop of registrar_venda: the inventory after the decrements and *)
(* the alerts printed on the way                                          *)
RECURSIVE Baixar(_, _, _, _)
Baixar(itens, prods, alertas, i) ==
  IF i > Len(itens) THEN [prods |-> prods, alertas |-> alertas]
  ELSE LET id == itens[i][1]
           p == atualizar_quantidade(prods[id], -itens[i][2])
           prods2 == [prods EXCEPT ![id] = p]
           alertas2 == IF verificar_estoque_baixo(p)
                         THEN Append(alertas, Msg("Alerta", None, Some(p.nome),
                                                  Some(p.quantidade)))
                         ELSE alertas
       IN Baixar(itens, prods2, alertas2, i + 1)

(* registrar_venda with a single loop that checks and decrements item by *)
(* item, so that a rejection keeps the decrements made before it         *)
RECURSIVE BaixarAte(_, _, _)
BaixarAte(itens, prods, i) ==
  IF i > Len(itens) THEN prods
  ELSE IF Validar(SubSeq(itens, i, i), prods, 1) # None THEN prods
  ELSE BaixarAte(itens,
                 [prods EXCEPT ![itens[i][1]] = atualizar_quantidade(@, -itens[i][2])],
                 i + 1)

registrar_venda_um_laco(produtos_vendidos, agora) ==
  LET erro == Validar(produtos_vendidos, produtos, 1)
  IN /\ chamada' = Chamada("registrar_venda", None, produtos_vendidos, << >>)
     /\ IF erro # None
          THEN /\ saida' = erro
               /\ ret' = Ret(None, None, FALSE)
               /\ produtos' = BaixarAte(produtos_vendidos, produtos, 1)
               /\ UNCHANGED <<vendas, ultimo_id_produto, ultimo_id_venda, relogio>>
          ELSE LET b == Baixar(produtos_vendidos, produtos, << >>, 1)
                   venda == Venda(ultimo_id_venda + 1, produtos_vendidos, agora, b.prods)
               IN /\ ultimo_id_venda < MaxVendas
                  /\ agora >= relogio
                  /\ relogio' = agora
                  /\ produtos' = b.prods
                  /\ saida' = b.alertas
                  /\ ultimo_id_venda' = ultimo_id_venda + 1
                  /\ vendas' = Append(vendas, venda)
                  /\ ret' = Ret(None, Some(venda), TRUE)
                  /\ UNCHANGED ultimo_id_produto

(* registrar_venda that takes the next sale id before it validates *)
registrar_venda_id_antes(produtos_vendidos, agora) ==
  LET erro == Validar(produtos_vendidos, produtos, 1)
  IN /\ chamada' = Chamada("registrar_venda", None, produtos_vendidos, << >>)
     /\ ultimo_id_venda < MaxVendas
     /\ ultimo_id_venda' = ultimo_id_venda + 1
     /\ IF erro # None
          THEN /\ saida' = erro
               /\ ret' = Ret(None, None, FALSE)
               /\ UNCHANGED <<produtos, vendas, ultimo_id_produto, relogio>>
          ELSE LET b == Baixar(produtos_vendidos, produtos, << >>, 1)
                   venda == Venda(ultimo_id_venda + 1, produtos_vendidos, agora, b.prods)
               IN /\ agora >= relogio
                  /\ relogio' = agora
                  /\ produtos' = b.prods
                  /\ saida' = b.alertas
                  /\ vendas' = Append(vendas, venda)
                  /\ ret' = Ret(None, Some(venda), TRUE)
                  /\ UNCHANGED ultimo_id_produto

registrar_venda(produtos_vendidos, agora) ==
  LET erro == Validar(produtos_vendidos, produtos, 1)
  IN /\ chamada' = Chamada("registrar_venda", None, produtos_vendidos, << >>)
     /\ IF erro # None
          THEN /\ saida' = erro
               /\ ret' = Ret(None, None, FALSE)
               /\ UNCHANGED <<produtos, vendas, ultimo_id_produto, ultimo_id_venda, relogio>>
          ELSE LET b == Baixar(produtos_vendidos, produtos, << >>, 1)
                   venda == Venda(ultimo_id_venda + 1, produtos_vendidos, agora, b.prods)
               IN /\ ultimo_id_venda < MaxVendas
                  /\ agora >= relogio
                  /\ relogio' = agora
                  /\ produtos' = b.prods
                  /\ saida' = b.alertas
                  /\ ultimo_id_venda' = ultimo_id_venda + 1
                  /\ vendas' = Append(vendas, venda)
                  /\ ret' = Ret(None, Some(venda), TRUE)
                  /\ UNCHANGED ultimo_id_produto

(* ---------------------------- reports ---------------------------------- *)
(* the elements of the finite set of integers S in increasing order *)
RECURSIVE Crescente(_)
Crescente(S) ==
  IF S = {} THEN << >>
  ELSE LET m == CHOOSE m \in S : \A x \in S : m <= x
       IN <<m>> \o Crescente(S \ {m})

(* self.produtos.values(): a dict keeps insertion order, and keys are     *)
(* inserted in increasing id                                               *)
Valores(prods) ==
  LET ids == Crescente(DOMAIN prods) IN [i \in 1..Len(ids) |-> prods[ids[i]]]

(* sorted(seq, key): the stable sort of seq, chaves[i] being the integer *)
(* key of seq[i]                                                        *)
Ordenar(seq, chaves) ==
  LET n == Len(seq)
      pos(i) == 1 + Cardinality({j \in 1..n :
                       \/ chaves[j] < chaves[i]
                       \/ chaves[j] = chaves[i] /\ j < i})
  IN [q \in 1..n |-> seq[CHOOSE i \in 1..n : pos(i) = q]]

(* str order of the names in use: the position of a name in NomesEmOrdem *)
NomesEmOrdem == <<"Blusa", "Calca">>

PosicaoDoNome(nome) == CHOOSE i \in 1..Len(NomesEmOrdem) : NomesEmOrdem[i] = nome

(* Produto.__str__ prints every field but limite_minimo *)
ProdutoStr(p) ==
  [id |-> p.id, nome |-> p.nome, tamanho |-> p.tamanho, cor |-> p.cor,
   quantidade |-> p.quantidade, preco |-> p.preco]

(* Venda.__str__ *)
VendaStr(v) == [id |-> v.id, data |-> v.data, valor_total |-> v.valor_total]

listar_produtos ==
  /\ chamada' = Chamada("listar_produtos", None, << >>, << >>)
  /\ ret' = RetLista(Valores(produtos))
  /\ saida' = << >>
  /\ UNCHANGED <<produtos, vendas, ultimo_id_produto, ultimo_id_venda, relogio>>

(* listar_produtos_estoque_baixo that compares with the default threshold *)
(* and not with the product's own                                        *)
listar_produtos_estoque_baixo_limite_padrao ==
  /\ chamada' = Chamada("listar_produtos_estoque_baixo", None, << >>, << >>)
  /\ ret' = RetLista(SelectSeq(Valores(produtos), LAMBDA p : p.quantidade < 5))
  /\ saida' = << >>
  /\ UNCHANGED <<produtos, vendas, ultimo_id_produto, ultimo_id_venda, relogio>>

listar_produtos_estoque_baixo ==
  /\ chamada' = Chamada("listar_produtos_estoque_baixo", None, << >>, << >>)
  /\ ret' = RetLista(SelectSeq(Valores(produtos), verificar_estoque_baixo))
  /\ saida' = << >>
  /\ UNCHANGED <<produtos, vendas, ultimo_id_produto, ultimo_id_venda, relogio>>

(* Interface.listar_produtos_estoque_baixo: asks the ledger for the list *)
(* and prints it sorted by quantity, or a notice when it is empty        *)
interface_listar_produtos_estoque_baixo ==
  LET lista == SelectSeq(Valores(produtos), verificar_estoque_baixo)
      ordenados == Ordenar(lista, [i \in 1..Len(lista) |-> lista[i].quantidade])
  IN /\ chamada' = Chamada("Interface.listar_produtos_estoque_baixo", None, << >>, << >>)
     /\ ret' = Ret(None, None, TRUE)
     /\ saida' = IF lista = << >>
                   THEN <<Msg("SemEstoqueBaixo", None, None, None)>>
                   ELSE [i \in 1..Len(ordenados) |->
                           [produto |-> ProdutoStr(ordenados[i]),
                            status |-> "ALERTA: Estoque Baixo!"]]
     /\ UNCHANGED <<produtos, vendas, ultimo_id_produto, ultimo_id_venda, relogio>>

(* gerar_relatorio_estoque that lists the products as the dict holds them *)
gerar_relatorio_estoque_sem_ordem(agora) ==
  LET valores == Valores(produtos)
  IN /\ agora >= relogio
     /\ relogio' = agora
     /\ chamada' = Chamada("gerar_relatorio_estoque", None, << >>, << >>)
     /\ ret' = RetRelatorio([data |-> agora,
                             total |-> Cardinality(DOMAIN produtos),
                             linhas |-> [i \in 1..Len(valores) |->
                                           [produto |-> ProdutoStr(valores[i]),
                                            status |-> IF verificar_estoque_baixo(valores[i])
                                                         THEN "ESTOQUE BAIXO" ELSE "OK"]]])
     /\ saida' = << >>
     /\ UNCHANGED <<produtos, vendas, ultimo_id_produto, ultimo_id_venda>>

LinhaDeEstoque(p) ==
  [produto |-> ProdutoStr(p),
   status |-> IF verificar_estoque_baixo(p) THEN "ESTOQUE BAIXO" ELSE "OK"]

gerar_relatorio_estoque(agora) ==
  LET valores == Valores(produtos)
      ordenados == Ordenar(valores,
                           [i \in 1..Len(valores) |-> PosicaoDoNome(valores[i].nome)])
  IN /\ agora >= relogio
     /\ relogio' = agora
     /\ chamada' = Chamada("gerar_relatorio_estoque", None, << >>, << >>)
     /\ ret' = RetRelatorio([data |-> agora,
                             total |-> Cardinality(DOMAIN produtos),
                             linhas |-> [i \in 1..Len(ordenados) |->
                                           LinhaDeEstoque(ordenados[i])]])
     /\ saida' = << >>
     /\ UNCHANGED <<produtos, vendas, ultimo_id_produto, ultimo_id_venda>>

(* datetime.min and datetime.max: before and after every timestamp *)
DataMin == 0 - 1

DataMax == MaxTempo + 1

RECURSIVE SomaTotais(_)
SomaTotais(vs) ==
  IF vs = << >> THEN 0 ELSE Head(vs).valor_total + SomaTotais(Tail(vs))

(* one line of a sale in the report, resolved against the inventory of now *)
LinhaDeItem(item, prods) ==
  IF item[1] \in DOMAIN prods
    THEN [quantidade |-> item[2], encontrado |-> TRUE, id |-> None,
          nome |-> Some(prods[item[1]].nome), tamanho |-> Some(prods[item[1]].tamanho),
          cor |-> Some(prods[item[1]].cor), preco |-> Some(prods[item[1]].preco)]
    ELSE [quantidade |-> item[2], encontrado |-> FALSE, id |-> Some(item[1]),
          nome |-> None, tamanho |-> None, cor |-> None, preco |-> None]

(* gerar_relatorio_vendas whose period ends before data_fim *)
gerar_relatorio_vendas_fim_exclusivo(data_inicio, data_fim) ==
  LET inicio == IF data_inicio = None THEN DataMin ELSE data_inicio[1]
      fim == IF data_fim = None THEN DataMax ELSE data_fim[1]
      NoPeriodo(v) == inicio <= v.data /\ v.data < fim
      vendas_periodo == SelectSeq(vendas, NoPeriodo)
  IN /\ chamada' = Chamada("gerar_relatorio_vendas", None, << >>, <<data_inicio, data_fim>>)
     /\ ret' = RetRelatorio(
                 [inicio |-> IF inicio # DataMin THEN Some(inicio) ELSE None,
                  fim |-> IF fim # DataMax THEN Some(fim) ELSE None,
                  total |-> Len(vendas_periodo),
                  valor |-> SomaTotais(vendas_periodo),
                  vendas |-> [i \in 1..Len(vendas_periodo) |->
                     [venda |-> VendaStr(vendas_periodo[i]),
                      itens |-> [j \in 1..Len(vendas_periodo[i].produtos) |->
                                   LinhaDeItem(vendas_periodo[i].produtos[j], produtos)]]]])
     /\ saida' = << >>
     /\ UNCHANGED <<produtos, vendas, ultimo_id_produto, ultimo_id_venda, relogio>>

(* gerar_relatorio_vendas that leaves out the sales that name a product *)
(* no longer in the inventory                                          *)
gerar_relatorio_vendas_so_existentes(data_inicio, data_fim) ==
  LET inicio == IF data_inicio = None THEN DataMin ELSE data_inicio[1]
      fim == IF data_fim = None THEN DataMax ELSE data_fim[1]
      NoPeriodo(v) == /\ inicio <= v.data /\ v.data <= fim
                      /\ \A j \in 1..Len(v.produtos) : v.produtos[j][1] \in DOMAIN produtos
      vendas_periodo == SelectSeq(vendas, NoPeriodo)
  IN /\ chamada' = Chamada("gerar_relatorio_vendas", None, << >>, <<data_inicio, data_fim>>)
     /\ ret' = RetRelatorio(
                 [inicio |-> IF inicio # DataMin THEN Some(inicio) ELSE None,
                  fim |-> IF fim # DataMax THEN Some(fim) ELSE None,
                  total |-> Len(vendas_periodo),
                  valor |-> SomaTotais(vendas_periodo),
                  vendas |-> [i \in 1..Len(vendas_periodo) |->
                     [venda |-> VendaStr(vendas_periodo[i]),
                      itens |-> [j \in 1..Len(vendas_periodo[i].produtos) |->
                                   LinhaDeItem(vendas_periodo[i].produtos[j], produtos)]]]])
     /\ saida' = << >>
     /\ UNCHANGED <<produtos, vendas, ultimo_id_produto, ultimo_id_venda, relogio>>

gerar_relatorio_vendas(data_inicio, data_fim) ==
  LET inicio == IF data_inicio = None THEN DataMin ELSE data_inicio[1]
      fim == IF data_fim = None THEN DataMax ELSE data_fim[1]
      NoPeriodo(v) == inicio <= v.data /\ v.data <= fim
      vendas_periodo == SelectSeq(vendas, NoPeriodo)
  IN /\ chamada' = Chamada("gerar_relatorio_vendas", None, << >>, <<data_inicio, data_fim>>)
     /\ ret' = RetRelatorio(
                 [inicio |-> IF inicio # DataMin THEN Some(inicio) ELSE None,
                  fim |-> IF fim # DataMax THEN Some(fim) ELSE None,
                  total |-> Len(vendas_periodo),
                  valor |-> SomaTotais(vendas_periodo),
                  vendas |-> [i \in 1..Len(vendas_periodo) |->
                     [venda |-> VendaStr(vendas_periodo[i]),
                      itens |-> [j \in 1..Len(vendas_periodo[i].produtos) |->
                                   LinhaDeItem(vendas_periodo[i].produtos[j], produtos)]]]])
     /\ saida' = << >>
     /\ UNCHANGED <<produtos, vendas, ultimo_id_produto, ultimo_id_venda, relogio>>

(* ---------------------------- specification ---------------------------- *)
OptNum(S) == {None} \cup {Some(v) : v \in S}

AdicionarDe(NomesS, TamanhosS, CoresS, QtdsS, PrecosS, LimitesS) ==
  \E nome \in NomesS, tamanho \in TamanhosS, cor \in CoresS, quantidade \in QtdsS,
     preco \in PrecosS, limite_minimo \in LimitesS :
       adicionar_produto(nome, tamanho, cor, quantidade, preco, limite_minimo)

AtualizarDe(NomesS, TamanhosS, CoresS, QtdsS, PrecosS, LimitesS) ==
  \E id_produto \in Ids, nome \in NomesS, tamanho \in TamanhosS, cor \in CoresS,
     quantidade \in QtdsS, preco \in PrecosS, limite_minimo \in LimitesS :
       atualizar_produto(id_produto, nome, tamanho, cor, quantidade, preco, limite_minimo)

Remover == \E id_produto \in Ids : remover_produto(id_produto)

RegistrarVendaDe(DictsS, TemposS) ==
  \E produtos_vendidos \in DictsS, agora \in TemposS :
       registrar_venda(produtos_vendidos, agora)

(* the ledger driven by a caller that registers, restocks, removes, sells  *)
(* and reports: one name, one price, positive stock and sale quantities    *)
Adicionar ==
  AdicionarDe({"Blusa"}, {"M"}, {"Preta"}, {1, 2}, {2}, {1})

Atualizar ==
  AtualizarDe({None}, {None}, {None}, OptNum({2}), {None}, {None})

RegistrarVenda == RegistrarVendaDe(Dicts(QtdsVenda), {0})

RelatorioEstoque == \E agora \in {0} : gerar_relatorio_estoque(agora)

RelatorioVendas ==
  \E data_inicio \in OptNum(0..MaxTempo), data_fim \in OptNum(0..MaxTempo) :
       gerar_relatorio_vendas(data_inicio, data_fim)

Next ==
  \/ Adicionar
  \/ Atualizar
  \/ Remover
  \/ RegistrarVenda
  \/ listar_produtos
  \/ listar_produtos_estoque_baixo
  \/ RelatorioEstoque
  \/ RelatorioVendas

Spec == Init /\ [][Next]_vars

(* the ledger without the reports, with one stock level and prices that   *)
(* are set at registration and changed through the update                  *)
AdicionarComPreco ==
  AdicionarDe({"Blusa"}, {"M"}, {"Preta"}, {2}, Precos, {1})

AtualizarPreco ==
  AtualizarDe({None}, {None}, {None}, {None}, OptNum(Precos), {None})

NextPreco == AdicionarComPreco \/ AtualizarPreco \/ Remover \/ RegistrarVenda

SpecPreco == Init /\ [][NextPreco]_vars

(* the inventory alone, driven by a caller that checks nothing: stock and  *)
(* threshold of any sign, renaming, and the low-stock question             *)
AdicionarLivre ==
  AdicionarDe({"Blusa"}, {"M"}, {"Preta"}, QtdsProduto, {2}, Limites)

AtualizarLivre ==
  AtualizarDe({None, Some("Calca")}, {None}, {None}, OptNum({1}), {None}, OptNum({1}))

Consultar == \E id_produto \in Ids : consultar_estoque_baixo(id_produto)

NextProdutos == AdicionarLivre \/ AtualizarLivre \/ Remover \/ Consultar

SpecProdutos == Init /\ [][NextProdutos]_vars

(* the update alone: requests <<nome, tamanho, cor, quantidade, preco,     *)
(* limite_minimo>> that supply no field, one field or all six, a string    *)
(* being absent, empty or a new value and a number absent or zero          *)
OptStr(S) == {None, Some("")} \cup {Some(v) : v \in S}

PedidosDeCampos ==
  LET todos == OptStr({"Calca"}) \X OptStr({"G"}) \X OptStr({"Azul"})
                 \X OptNum({0}) \X OptNum({0}) \X OptNum({0})
      dados(c) == Cardinality({i \in DOMAIN c : c[i] # None})
  IN {c \in todos : dados(c) <= 1 \/ dados(c) = Len(c)}

AdicionarCampos ==
  AdicionarDe({"Blusa"}, {"M"}, {"Preta"}, {2}, {2}, {1})

(* the update goes to the first product or to an id never assigned *)
IdsDeCampos == {1, MaxProdutos + 1}

AtualizarCampos ==
  \E id_produto \in IdsDeCampos, c \in PedidosDeCampos :
       atualizar_produto(id_produto, c[1], c[2], c[3], c[4], c[5], c[6])

VenderUm == RegistrarVendaDe({<<<<1, 1>>>>}, {0})

NextCampos == AdicionarCampos \/ AtualizarCampos \/ Remover \/ VenderUm

SpecCampos == Init /\ [][NextCampos]_vars

(* sales at different times and prices, and the sales report asked with   *)
(* every pair of bounds                                                     *)
AtualizarPrecoPara3 ==
  AtualizarDe({None}, {None}, {None}, {None}, {Some(3)}, {None})

VenderNoTempo ==
  RegistrarVendaDe({<<<<1, 1>>>>, <<<<1, 1>>, <<2, 1>>>>}, 0..MaxTempo)

NextRelatorio ==
  AdicionarCampos \/ AtualizarPrecoPara3 \/ Remover \/ VenderNoTempo \/ RelatorioVendas

SpecRelatorio == Init /\ [][NextRelatorio]_vars

(* the listings: products of two names, with and without stock, below and *)
(* above their thresholds, listed by the ledger and by the menu, and the    *)
(* stock report asked at different times                                    *)
AdicionarVariado ==
  AdicionarDe({"Blusa", "Calca"}, {"M"}, {"Preta"}, {0, 2}, {2}, {1, 3})

RelatorioEstoqueNoTempo == \E agora \in 0..MaxTempo : gerar_relatorio_estoque(agora)

NextListas ==
  \/ AdicionarVariado
  \/ Remover
  \/ listar_produtos_estoque_baixo
  \/ interface_listar_produtos_estoque_baixo
  \/ RelatorioEstoqueNoTempo

SpecListas == Init /\ [][NextListas]_vars

(* the ledger behind a caller that passes no negative quantity: one unit   *)
(* registered, stock set to zero, sales of zero units or one, thresholds    *)
(* at the stock and below it                                                *)
AdicionarSaneado ==
  AdicionarDe({"Blusa"}, {"M"}, {"Preta"}, {1}, {2}, {0, 1})

AtualizarSaneado ==
  AtualizarDe({None}, {None}, {None}, {Some(0)}, {None}, {None})

RegistrarVendaSaneada == RegistrarVendaDe(Dicts({0, 1}), {0})

NextSaneado ==
  AdicionarSaneado \/ AtualizarSaneado \/ Remover \/ RegistrarVendaSaneada

SpecSaneado == Init /\ [][NextSaneado]_vars

(* sales of zero units or one from an inventory registered by a caller  *)
(* that checks nothing: stock below zero, at zero and above              *)
AdicionarSemFiltro ==
  AdicionarDe({"Blusa"}, {"M"}, {"Preta"}, {-1, 0, 1}, {2}, {1})

NextSemFiltro == AdicionarSemFiltro \/ Remover \/ RegistrarVendaSaneada

SpecSemFiltro == Init /\ [][NextSemFiltro]_vars

(* sales whose line items ask for one unit or for minus one, which the  *)
(* ledger takes as they come, with restocking and removal                *)
RegistrarVendaComSinal == RegistrarVendaDe(Dicts({-1, 1}), {0})

NextComSinal == AdicionarCampos \/ Atualizar \/ Remover \/ RegistrarVendaComSinal

SpecComSinal == Init /\ [][NextComSinal]_vars

(* ---------------------------- properties ------------------------------- *)
(* some line item of the dict d names no product of prods or asks for more *)
(* than the product has                                                     *)
ItemFalha(d, prods) ==
  \E i \in 1..Len(d) :
     \/ d[i][1] \notin DOMAIN prods
     \/ prods[d[i][1]].quantidade < d[i][2]

(* the quantity the dict d asks of product id (0 when d does not name it) *)
Pedido(d, id) ==
  IF \E i \in 1..Len(d) : d[i][1] = id
    THEN LET i == CHOOSE i \in 1..Len(d) : d[i][1] = id IN d[i][2]
    ELSE 0

EhVenda == chamada'.op = "registrar_venda"

(* C1: a registrar_venda whose dict has an item that names no product or   *)
(* asks for more than is in stock returns None and leaves the products,     *)
(* the sales and both id counters as they were.                             *)
C1_Atomicidade ==
  [][(EhVenda /\ ItemFalha(chamada'.produtos_vendidos, produtos))
       => (ret'.venda = None /\ ret'.ok = FALSE /\ UNCHANGED livro)]_vars

(* a rejected sale of two items whose first item alone would have passed *)
C1_Witness ==
  /\ chamada.op = "registrar_venda"
  /\ ret.ok = FALSE
  /\ Len(chamada.produtos_vendidos) = 2
  /\ LET d == chamada.produtos_vendidos
     IN /\ d[1][1] \in DOMAIN produtos
        /\ produtos[d[1][1]].quantidade >= d[1][2]
        /\ d[2][1] \in DOMAIN produtos
        /\ produtos[d[2][1]].quantidade < d[2][2]

(* C3: a registrar_venda whose items all name products with enough stock   *)
(* returns a Venda carrying the dict; each product's quantity drops by the  *)
(* amount asked of it and nothing else of it changes, products that are not *)
(* named are unchanged, and the Venda is appended to vendas.                *)
C3_Baixa ==
  [][(EhVenda /\ ~ItemFalha(chamada'.produtos_vendidos, produtos))
       => LET d == chamada'.produtos_vendidos
          IN /\ ret'.ok = TRUE
             /\ ret'.venda # None
             /\ ret'.venda[1].produtos = d
             /\ DOMAIN produtos' = DOMAIN produtos
             /\ \A id \in DOMAIN produtos :
                  produtos'[id] =
                    [produtos[id] EXCEPT !.quantidade = @ - Pedido(d, id)]
             /\ vendas' = Append(vendas, ret'.venda[1])]_vars

(* an accepted sale of one item while another product is in stock *)
C3_Witness ==
  /\ chamada.op = "registrar_venda"
  /\ ret.ok = TRUE
  /\ Len(chamada.produtos_vendidos) = 1
  /\ chamada.produtos_vendidos[1][2] = 2
  /\ Cardinality(DOMAIN produtos) = 2
  /\ vendas[Len(vendas)] = ret.venda[1]

(* C7: the i-th element of vendas has id i and ultimo_id_venda is the      *)
(* length of vendas; the Venda a call returns is the last element.          *)
C7_IdsDeVenda ==
  /\ ultimo_id_venda = Len(vendas)
  /\ \A i \in 1..Len(vendas) : vendas[i].id = i
  /\ ret.venda # None => ret.venda[1].id = Len(vendas)

(* a sale rejected after two sales were recorded *)
C7_Witness ==
  /\ Len(vendas) = 2
  /\ vendas[2].id = 2
  /\ chamada.op = "registrar_venda"
  /\ ret.ok = FALSE

(* the first item of d that names no product of prods or asks for more *)
(* than the product has                                                 *)
PrimeiraFalha(d, prods) ==
  CHOOSE i \in 1..Len(d) :
     /\ ItemFalha(SubSeq(d, i, i), prods)
     /\ ~ItemFalha(SubSeq(d, 1, i - 1), prods)

Rejeitada == chamada.op = "registrar_venda" /\ ret.ok = FALSE

C6_IdsDeProduto ==
  /\ ultimo_id_produto = 0
  /\ [][IF chamada'.op = "adicionar_produto"
          THEN /\ ultimo_id_produto' = ultimo_id_produto + 1
               /\ ret'.produto # None
               /\ ret'.produto[1].id = ultimo_id_produto'
               /\ ultimo_id_produto' \notin DOMAIN produtos
               /\ DOMAIN produtos' = DOMAIN produtos \cup {ultimo_id_produto'}
               /\ produtos'[ultimo_id_produto'] = ret'.produto[1]
               /\ \A id \in DOMAIN produtos : produtos'[id] = produtos[id]
          ELSE /\ ultimo_id_produto' = ultimo_id_produto
               /\ DOMAIN produtos' \subseteq DOMAIN produtos]_vars

(* the second product is added after the first was sold and removed *)
C6_Witness ==
  /\ chamada.op = "adicionar_produto"
  /\ ret.produto[1].id = 2
  /\ DOMAIN produtos = {2}
  /\ Len(vendas) = 1

(* C8: every step keeps the recorded sales as they are, in place; vendas   *)
(* grows only by one Venda and only in a registrar_venda that succeeds.     *)
C8_VendasSoCrescem ==
  [][/\ Len(vendas') >= Len(vendas)
     /\ SubSeq(vendas', 1, Len(vendas)) = vendas
     /\ vendas' # vendas =>
          /\ EhVenda
          /\ ret'.ok = TRUE
          /\ Len(vendas') = Len(vendas) + 1]_vars

(* two sales are on record and a product that the first one names has     *)
(* just been removed                                                       *)
C8_Witness ==
  /\ Len(vendas) = 2
  /\ chamada.op = "remover_produto"
  /\ ret.ok = TRUE
  /\ SemProduto(vendas, chamada.id_produto[1]) = Tail(vendas)

(* C10: remover_produto(id) returns whether id was a key; afterwards id is *)
(* no key, every other product is as before, and the sales and both id     *)
(* counters are unchanged, also when a sale names id.                       *)
C10_Remocao ==
  [][chamada'.op = "remover_produto"
       => LET id == chamada'.id_produto[1]
          IN /\ ret'.ok = (id \in DOMAIN produtos)
             /\ DOMAIN produtos' = DOMAIN produtos \ {id}
             /\ \A k \in DOMAIN produtos' : produtos'[k] = produtos[k]
             /\ UNCHANGED <<vendas, ultimo_id_produto, ultimo_id_venda>>]_vars

(* a product named by a recorded sale has been removed, another remains *)
C10_Witness ==
  /\ chamada.op = "remover_produto"
  /\ ret.ok = TRUE
  /\ Cardinality(DOMAIN produtos) = 1
  /\ SemProduto(vendas, chamada.id_produto[1]) # vendas

(* the sum of f over the finite set S *)
RECURSIVE SomaSobre(_, _)
SomaSobre(S, f) ==
  IF S = {} THEN 0
  ELSE LET x == CHOOSE x \in S : TRUE IN f[x] + SomaSobre(S \ {x}, f)

(* price times quantity, summed over the items of d at the prices of prods *)
TotalAosPrecos(d, prods) ==
  SomaSobre(1..Len(d), [i \in 1..Len(d) |-> prods[d[i][1]].preco * d[i][2]])

(* C4: the Venda a registrar_venda returns has as valor_total the sum of   *)
(* price times quantity over its items at the prices of that moment, and   *)
(* no later step changes the valor_total of a recorded sale.                *)
C4_TotalNoAto ==
  [][/\ \A i \in 1..Len(vendas) :
          /\ i <= Len(vendas')
          /\ vendas'[i].valor_total = vendas[i].valor_total
     /\ (EhVenda /\ ret'.ok = TRUE) =>
          /\ ret'.venda[1].valor_total =
               TotalAosPrecos(chamada'.produtos_vendidos, produtos)
          /\ vendas'[Len(vendas')].valor_total = ret'.venda[1].valor_total]_vars

(* the price of a product has just been changed and a recorded sale of   *)
(* two units of it keeps the total of the old price; another recorded    *)
(* sale names a product that has been removed since                      *)
C4_Witness ==
  /\ chamada.op = "atualizar_produto"
  /\ chamada.campos[5] # None
  /\ ret.ok = TRUE
  /\ \E i \in 1..Len(vendas) :
       /\ vendas[i].produtos = <<<<chamada.id_produto[1], 2>>>>
       /\ vendas[i].valor_total # 2 * ret.produto[1].preco
  /\ \E i \in 1..Len(vendas) : \E j \in 1..Len(vendas[i].produtos) :
       vendas[i].produtos[j][1] \notin DOMAIN produtos

(* C2: every product in the inventory has quantidade >= 0, whatever the *)
(* operations that led there.                                            *)
C2_QuantidadeNaoNegativa ==
  \A id \in DOMAIN produtos : produtos[id].quantidade >= 0

(* C9: verificar_estoque_baixo answers true exactly when the product's   *)
(* quantidade is below its limite_minimo, whatever its other fields.      *)
C9_BaixoEstrito ==
  chamada.op = "verificar_estoque_baixo" =>
    LET p == produtos[chamada.id_produto[1]]
    IN /\ ret.produto = Some(p)
       /\ ret.ok = (p.quantidade < p.limite_minimo)
       /\ p.quantidade = p.limite_minimo => ret.ok = FALSE
       /\ p.quantidade = p.limite_minimo - 1 => ret.ok = TRUE

(* a renamed product whose stock equals its threshold is asked and is not *)
(* low                                                                     *)
C9_Witness ==
  /\ chamada.op = "verificar_estoque_baixo"
  /\ ret.produto[1].quantidade = ret.produto[1].limite_minimo
  /\ ret.produto[1].nome = "Calca"
  /\ ret.ok = FALSE

(* C11: atualizar_produto called with an id that is not a key of the       *)
(* inventory returns None and leaves every product, the sales and both     *)
(* counters as they were, whatever fields are supplied; it never creates a *)
(* product.                                                                 *)
C11_AtualizarDesconhecido ==
  [][chamada'.op = "atualizar_produto" /\ chamada'.id_produto[1] \notin DOMAIN produtos
       => /\ ret'.produto = None
          /\ produtos' = produtos
          /\ vendas' = vendas
          /\ ultimo_id_produto' = ultimo_id_produto
          /\ ultimo_id_venda' = ultimo_id_venda]_vars

(* an update with all six fields supplied was answered None for the id of *)
(* a removed product, while another product and a sale are in the ledger  *)
C11_Witness ==
  /\ chamada.op = "atualizar_produto"
  /\ ret.produto = None
  /\ chamada.id_produto = Some(1)
  /\ chamada.campos = <<Some("Calca"), Some("G"), Some("Azul"), Some(0), Some(0), Some(0)>>
  /\ DOMAIN produtos = {2}
  /\ Len(vendas) = 1
  /\ ultimo_id_produto = 2

(* C12: atualizar_produto for an id that is a key sets quantidade, preco   *)
(* and limite_minimo to every supplied value that is not None, zero        *)
(* included, and leaves each of them alone when None; it sets nome,        *)
(* tamanho and cor to a supplied non-empty string and leaves each alone    *)
(* when None or empty.  The id, the other products, the sales and both     *)
(* counters do not change, and the updated product is returned.            *)
C12_AtualizacaoParcial ==
  [][chamada'.op = "atualizar_produto" /\ chamada'.id_produto[1] \in DOMAIN produtos
       => LET id == chamada'.id_produto[1]
              c == chamada'.campos
              p == produtos[id]
              q == produtos'[id]
              texto(campo, antes) ==
                IF campo = None \/ campo = Some("") THEN antes ELSE campo[1]
              numero(campo, antes) == IF campo = None THEN antes ELSE campo[1]
          IN /\ DOMAIN produtos' = DOMAIN produtos
             /\ q.id = p.id
             /\ q.nome = texto(c[1], p.nome)
             /\ q.tamanho = texto(c[2], p.tamanho)
             /\ q.cor = texto(c[3], p.cor)
             /\ q.quantidade = numero(c[4], p.quantidade)
             /\ q.preco = numero(c[5], p.preco)
             /\ q.limite_minimo = numero(c[6], p.limite_minimo)
             /\ \A k \in DOMAIN produtos \ {id} : produtos'[k] = produtos[k]
             /\ ret'.produto = Some(q)
             /\ UNCHANGED <<vendas, ultimo_id_produto, ultimo_id_venda>>]_vars

(* an update of product 1 with an empty name, a new size and zeros: the   *)
(* name is kept, the size and the numbers are set; product 2 and a sale   *)
(* are in the ledger                                                       *)
C12_Witness ==
  /\ chamada.op = "atualizar_produto"
  /\ chamada.id_produto = Some(1)
  /\ chamada.campos = <<Some(""), Some("G"), Some(""), Some(0), Some(0), Some(0)>>
  /\ ret.produto = Some(Produto(1, "Blusa", "G", "Preta", 0, 0, 0))
  /\ 2 \in DOMAIN produtos
  /\ Len(vendas) = 1

(* the positions in vendas of the sales a report asked with the bounds   *)
(* campos = <<data_inicio, data_fim>> has to show                        *)
NoFiltro(campos, vs) ==
  {k \in 1..Len(vs) : /\ campos[1] # None => campos[1][1] <= vs[k].data
                      /\ campos[2] # None => vs[k].data <= campos[2][1]}

(* C13: gerar_relatorio_vendas completes and returns a report when sales   *)
(* name products that were removed: the report shows every sale that       *)
(* matches the filter; a line item whose id is not a key of the inventory  *)
(* is shown with its quantity, its id and the not-found marker, a line     *)
(* item whose id is a key is shown with the product's current name, size,  *)
(* colour and price; the ledger is not modified.                           *)
C13_RelatorioTolerante ==
  [][chamada'.op = "gerar_relatorio_vendas"
       => /\ ret'.relatorio # None
          /\ LET r == ret'.relatorio[1]
                 dentro == NoFiltro(chamada'.campos, vendas)
             IN /\ Len(r.vendas) = Cardinality(dentro)
                /\ \A k \in dentro :
                     \E i \in 1..Len(r.vendas) :
                        /\ r.vendas[i].venda.id = vendas[k].id
                        /\ Len(r.vendas[i].itens) = Len(vendas[k].produtos)
                        /\ \A j \in 1..Len(vendas[k].produtos) :
                             LET item == vendas[k].produtos[j]
                                 linha == r.vendas[i].itens[j]
                             IN /\ linha.quantidade = item[2]
                                /\ IF item[1] \in DOMAIN produtos
                                     THEN /\ linha.encontrado
                                          /\ linha.nome = Some(produtos[item[1]].nome)
                                          /\ linha.tamanho = Some(produtos[item[1]].tamanho)
                                          /\ linha.cor = Some(produtos[item[1]].cor)
                                          /\ linha.preco = Some(produtos[item[1]].preco)
                                     ELSE /\ ~linha.encontrado
                                          /\ linha.id = Some(item[1])
          /\ UNCHANGED <<produtos, vendas, ultimo_id_produto, ultimo_id_venda>>]_vars

(* a report shows a sale of two products, one still in the inventory and *)
(* one removed since                                                     *)
C13_Witness ==
  /\ chamada.op = "gerar_relatorio_vendas"
  /\ ret.relatorio # None
  /\ \E i \in 1..Len(ret.relatorio[1].vendas) :
        LET itens == ret.relatorio[1].vendas[i].itens
        IN /\ Len(itens) = 2
           /\ \E j \in 1..2 : ~itens[j].encontrado
           /\ \E j \in 1..2 : itens[j].encontrado

(* C14: the sales report shows exactly the sales whose timestamp t has     *)
(* data_inicio <= t <= data_fim, both ends included, in the order of the   *)
(* sales sequence; a bound that is omitted excludes no sale; the count     *)
(* reported is the number of sales shown and the value reported is the     *)
(* sum of their stored totals.                                             *)
C14_FiltroEAgregados ==
  chamada.op = "gerar_relatorio_vendas"
    => LET r == ret.relatorio[1]
           dentro == NoFiltro(chamada.campos, vendas)
           posicoes == Crescente(dentro)
       IN /\ Len(r.vendas) = Len(posicoes)
          /\ \A i \in 1..Len(posicoes) :
               /\ r.vendas[i].venda.id = vendas[posicoes[i]].id
               /\ r.vendas[i].venda.data = vendas[posicoes[i]].data
               /\ r.vendas[i].venda.valor_total = vendas[posicoes[i]].valor_total
          /\ r.total = Cardinality(dentro)
          /\ r.valor = SomaSobre(dentro, [k \in dentro |-> vendas[k].valor_total])
          /\ chamada.campos[1] = None
               => \A k \in 1..Len(vendas) :
                    (chamada.campos[2] = None \/ vendas[k].data <= chamada.campos[2][1])
                      => \E i \in 1..Len(r.vendas) : r.vendas[i].venda.id = vendas[k].id
          /\ chamada.campos[2] = None
               => \A k \in 1..Len(vendas) :
                    (chamada.campos[1] = None \/ chamada.campos[1][1] <= vendas[k].data)
                      => \E i \in 1..Len(r.vendas) : r.vendas[i].venda.id = vendas[k].id

(* a report asked for the period from 1 to 1 shows the second of two     *)
(* sales, made at time 1 at another price, and not the first, made at 0  *)
C14_Witness ==
  /\ chamada.op = "gerar_relatorio_vendas"
  /\ chamada.campos = <<Some(1), Some(1)>>
  /\ Len(vendas) = 2
  /\ vendas[1].data = 0
  /\ vendas[2].data = 1
  /\ vendas[1].valor_total # vendas[2].valor_total
  /\ ret.relatorio[1].total = 1
  /\ ret.relatorio[1].valor = vendas[2].valor_total
  /\ ret.relatorio[1].vendas[1].venda.id = 2

(* the sequence lista of products holds exactly the low-stock products of *)
(* the inventory, each once                                               *)
SoOsBaixos(lista) ==
  /\ \A i \in 1..Len(lista) :
        /\ lista[i].id \in DOMAIN produtos
        /\ produtos[lista[i].id].quantidade < produtos[lista[i].id].limite_minimo
        /\ lista[i].quantidade = produtos[lista[i].id].quantidade
  /\ \A id \in DOMAIN produtos :
        produtos[id].quantidade < produtos[id].limite_minimo
          => Cardinality({i \in 1..Len(lista) : lista[i].id = id}) = 1

(* C15 as stated: the ledger's listar_produtos_estoque_baixo returns     *)
(* exactly the products whose quantity is strictly below their threshold, *)
(* each once, ordered by ascending quantity.                              *)
C15_BaixosPorQuantidade ==
  chamada.op = "listar_produtos_estoque_baixo"
    => /\ SoOsBaixos(ret.lista)
       /\ \A i, j \in 1..Len(ret.lista) :
             i < j => ret.lista[i].quantidade <= ret.lista[j].quantidade

(* C15 amended: the ledger's listar_produtos_estoque_baixo returns exactly *)
(* the products whose quantity is strictly below their threshold, each     *)
(* once, in the order of the inventory (increasing id); it is the menu's   *)
(* listar_produtos_estoque_baixo that prints that list ordered by          *)
(* ascending quantity.                                                     *)
C15_BaixosPorId ==
  /\ chamada.op = "listar_produtos_estoque_baixo"
       => /\ SoOsBaixos(ret.lista)
          /\ \A i, j \in 1..Len(ret.lista) : i < j => ret.lista[i].id < ret.lista[j].id
  /\ chamada.op = "Interface.listar_produtos_estoque_baixo"
       => IF \E id \in DOMAIN produtos :
                 produtos[id].quantidade < produtos[id].limite_minimo
            THEN LET impressos == [i \in 1..Len(saida) |-> saida[i].produto]
                 IN /\ SoOsBaixos(impressos)
                    /\ \A i, j \in 1..Len(impressos) :
                          i < j => impressos[i].quantidade <= impressos[j].quantidade
            ELSE saida = <<Msg("SemEstoqueBaixo", None, None, None)>>

(* the menu prints product 2, out of stock, before product 1, which has  *)
(* two units and is low as well                                          *)
C15_Witness ==
  /\ chamada.op = "Interface.listar_produtos_estoque_baixo"
  /\ DOMAIN produtos = {1, 2}
  /\ produtos[1].quantidade = 2
  /\ produtos[2].quantidade = 0
  /\ Len(saida) = 2
  /\ saida[1].produto.id = 2
  /\ saida[2].produto.id = 1

(* C16: gerar_relatorio_estoque changes nothing in the ledger; it lists    *)
(* every product exactly once, ordered by name, each marked ESTOQUE BAIXO  *)
(* exactly when its quantity is strictly below its threshold and OK        *)
(* otherwise, with the number of products; two calls with no operation     *)
(* between them give the same listing.                                     *)
C16_RelatorioDeEstoque ==
  [][chamada'.op = "gerar_relatorio_estoque"
       => LET r == ret'.relatorio[1]
          IN /\ UNCHANGED <<produtos, vendas, ultimo_id_produto, ultimo_id_venda>>
             /\ r.total = Cardinality(DOMAIN produtos)
             /\ Len(r.linhas) = Cardinality(DOMAIN produtos)
             /\ \A id \in DOMAIN produtos :
                  \E i \in 1..Len(r.linhas) :
                     /\ r.linhas[i].produto.id = id
                     /\ r.linhas[i].produto.nome = produtos[id].nome
                     /\ r.linhas[i].produto.quantidade = produtos[id].quantidade
                     /\ r.linhas[i].status =
                          IF produtos[id].quantidade < produtos[id].limite_minimo
                            THEN "ESTOQUE BAIXO" ELSE "OK"
             /\ \A i, j \in 1..Len(r.linhas) :
                  i < j => PosicaoDoNome(r.linhas[i].produto.nome)
                             <= PosicaoDoNome(r.linhas[j].produto.nome)
             /\ chamada.op = "gerar_relatorio_estoque"
                  => r.linhas = ret.relatorio[1].linhas]_vars

(* a report lists product 2, a Blusa with stock at its threshold, before *)
(* product 1, a Calca below its threshold                                *)
C16_Witness ==
  /\ chamada.op = "gerar_relatorio_estoque"
  /\ LET r == ret.relatorio[1]
     IN /\ r.total = 2
        /\ r.data = MaxTempo
        /\ r.linhas[1].produto.id = 2
        /\ r.linhas[1].produto.nome = "Blusa"
        /\ r.linhas[1].status = "OK"
        /\ r.linhas[2].produto.nome = "Calca"
        /\ r.linhas[2].status = "ESTOQUE BAIXO"

(* C17: in a registrar_venda that succeeds, an alert is printed for a line *)
(* item exactly when the product's quantity after that item's decrement is *)
(* strictly below its threshold, also when the product was low before the  *)
(* sale; the alerts come in the order of the items and name the product    *)
(* and its new quantity.  A rejected sale prints no alert.  An alert does   *)
(* not stop the sale: whenever every item passes, the sale is recorded and  *)
(* returned.                                                                *)
C17_AlertaNaBaixa ==
  [][chamada'.op = "registrar_venda"
       => LET d == chamada'.produtos_vendidos
          IN IF ItemFalha(d, produtos)
               THEN /\ ret'.venda = None
                    /\ \A i \in 1..Len(saida') : saida'[i].tipo # "Alerta"
               ELSE LET depois(i) == produtos[d[i][1]].quantidade - d[i][2]
                        baixos == {i \in 1..Len(d) :
                                     depois(i) < produtos[d[i][1]].limite_minimo}
                        ordem == Crescente(baixos)
                    IN /\ ret'.venda # None
                       /\ vendas' = Append(vendas, ret'.venda[1])
                       /\ Len(saida') = Len(ordem)
                       /\ \A k \in 1..Len(ordem) :
                            /\ saida'[k].tipo = "Alerta"
                            /\ saida'[k].nome = Some(produtos[d[ordem[k]][1]].nome)
                            /\ saida'[k].quantidade = Some(depois(ordem[k]))]_vars

(* a sale of no unit of product 1, out of stock and low before the sale, *)
(* and of the one unit of product 2, whose threshold is zero: one alert, *)
(* for product 1, and the sale is recorded                               *)
C17_Witness ==
  /\ chamada.op = "registrar_venda"
  /\ chamada.produtos_vendidos = <<<<1, 0>>, <<2, 1>>>>
  /\ ret.venda # None
  /\ vendas[Len(vendas)] = ret.venda[1]
  /\ produtos[1].quantidade = 0
  /\ produtos[1].limite_minimo = 1
  /\ produtos[2].quantidade = 0
  /\ produtos[2].limite_minimo = 0
  /\ saida = <<Msg("Alerta", None, Some("Blusa"), Some(0))>>

(* C18 as stated: a line item of quantity 0 for a product of the inventory *)
(* always passes the stock check, whatever the product's quantity: a sale  *)
(* whose every item names a product and is either of quantity 0 or covered *)
(* by the stock is recorded; the item leaves the product's quantity as it   *)
(* was, adds 0 to the total and is an item of the recorded sale.  A line    *)
(* item of quantity 0 for an id that is not a key rejects the sale.         *)
C18_ItemZero ==
  [][chamada'.op = "registrar_venda"
       => LET d == chamada'.produtos_vendidos
              zeros == {i \in 1..Len(d) : d[i][2] = 0}
              resto == (1..Len(d)) \ zeros
          IN /\ (/\ \A i \in 1..Len(d) : d[i][1] \in DOMAIN produtos
                 /\ \A i \in resto : produtos[d[i][1]].quantidade >= d[i][2])
                  => /\ ret'.venda # None
                     /\ ret'.venda[1].produtos = d
                     /\ \A i \in zeros :
                          produtos'[d[i][1]].quantidade = produtos[d[i][1]].quantidade
                     /\ ret'.venda[1].valor_total =
                          SomaSobre(resto, [i \in resto |->
                                      produtos[d[i][1]].preco * d[i][2]])
             /\ (\E i \in zeros : d[i][1] \notin DOMAIN produtos)
                  => ret'.venda = None /\ produtos' = produtos /\ vendas' = vendas]_vars

(* keys, product ids and the ids that recorded sales name are ids that *)
(* the counter has given out                                           *)
IdsCoerentes ==
  /\ \A k \in DOMAIN produtos : k \in 1..ultimo_id_produto /\ produtos[k].id = k
  /\ \A v \in 1..Len(vendas) :
       \A j \in 1..Len(vendas[v].produtos) :
          vendas[v].produtos[j][1] \in 1..ultimo_id_produto

(* C19: every key of the inventory lies in 1..ultimo_id_produto and the    *)
(* product under key k has id k; every line item of a recorded sale names  *)
(* an id in 1..ultimo_id_produto; a key that enters the inventory is above *)
(* the counter and above every id a recorded sale names, so that the id of *)
(* a line item is either absent from the inventory or the key of the       *)
(* product that was decremented when the sale was settled.                 *)
C19_MesmoProduto ==
  /\ IdsCoerentes
  /\ [][/\ IdsCoerentes'
        /\ \A k \in DOMAIN produtos' \ DOMAIN produtos :
             /\ k > ultimo_id_produto
             /\ \A v \in 1..Len(vendas) :
                  \A j \in 1..Len(vendas[v].produtos) : vendas[v].produtos[j][1] < k
        /\ \A k \in DOMAIN produtos \cap DOMAIN produtos' : produtos'[k].id = produtos[k].id]_vars

(* the sales report is asked when product 1, which a sale names, was     *)
(* removed and product 2 was registered after it: the line is not found  *)
C19_Witness ==
  /\ chamada.op = "gerar_relatorio_vendas"
  /\ DOMAIN produtos = {2}
  /\ ultimo_id_produto = 2
  /\ Len(vendas) = 1
  /\ vendas[1].produtos = <<<<1, 1>>>>
  /\ Len(ret.relatorio[1].vendas) = 1
  /\ ret.relatorio[1].vendas[1].itens[1].id = Some(1)

(* C20: when no quantity passed to adicionar_produto, atualizar_produto or *)
(* registrar_venda is negative, no product's quantity is ever negative; a  *)
(* registrar_venda step leaves no product that had a quantity of zero or   *)
(* more with a negative one.                                               *)
C20_SaneadoNaoNegativo ==
  /\ \A id \in DOMAIN produtos : produtos[id].quantidade >= 0
  /\ [][/\ \A id \in DOMAIN produtos' : produtos'[id].quantidade >= 0
        /\ chamada'.op = "registrar_venda"
             => \A id \in DOMAIN produtos :
                  produtos[id].quantidade >= 0 => produtos'[id].quantidade >= 0]_vars

(* the last unit of product 1 is sold, together with no unit of product 2, *)
(* which was set to zero                                                    *)
C20_Witness ==
  /\ chamada.op = "registrar_venda"
  /\ chamada.produtos_vendidos = <<<<1, 1>>, <<2, 0>>>>
  /\ ret.venda # None
  /\ produtos[1].quantidade = 0
  /\ produtos[2].quantidade = 0
  /\ Len(vendas) = 2

(* the units of product id that the sales vs have on record *)
Vendido(vs, id) ==
  SomaSobre(1..Len(vs), [v \in 1..Len(vs) |-> Pedido(vs[v].produtos, id)])

(* C21: stock conservation.  For a product of the inventory, the quantity  *)
(* in stock plus the quantities that the recorded sales hold for its id is  *)
(* the quantity it was added with, as long as atualizar_produto did not set *)
(* its quantity: the sum is the added quantity in the step that adds the    *)
(* product, and no later step changes the sum but an atualizar_produto of   *)
(* that product that supplies a quantity.                                   *)
C21_Conservacao ==
  [][\A id \in DOMAIN produtos' :
       IF id \notin DOMAIN produtos
         THEN /\ chamada'.op = "adicionar_produto"
              /\ produtos'[id].quantidade + Vendido(vendas', id) = chamada'.campos[4][1]
         ELSE \/ /\ chamada'.op = "atualizar_produto"
                 /\ chamada'.id_produto = Some(id)
                 /\ chamada'.campos[4] # None
              \/ produtos'[id].quantidade + Vendido(vendas', id)
                   = produtos[id].quantidade + Vendido(vendas, id)]_vars

(* two sales took the two units product 1 was added with, the second one *)
(* together with minus one unit of product 2                             *)
C21_Witness ==
  /\ chamada.op = "registrar_venda"
  /\ chamada.produtos_vendidos = <<<<1, 1>>, <<2, -1>>>>
  /\ ret.venda # None
  /\ Len(vendas) = 2
  /\ Vendido(vendas, 1) = 2
  /\ produtos[1].quantidade = 0
  /\ Vendido(vendas, 2) = -1
  /\ produtos[2].quantidade = 3

(* C22: a registrar_venda call, recorded or rejected, with any dict the    *)
(* ledger takes, line items of negative quantity included, leaves every    *)
(* product with a quantity that is at most its quantity before the call.   *)
C22_VendaNaoRepoe ==
  [][chamada'.op = "registrar_venda"
       => \A id \in DOMAIN produtos :
            /\ id \in DOMAIN produtos'
            /\ produtos'[id].quantidade <= produtos[id].quantidade]_vars

====
